---- MODULE Spec2Model ----
(***************************************************************************)
(* etl-mini-pipeline: the generate stage (generate_transactions.py) and    *)
(* the transform stage (transform_transactions.py) over a file system of   *)
(* raw, curated and quarantine CSV files keyed by run-date.                *)
(*                                                                         *)
(* Text that the code parses, formats or pattern-matches (run-date,        *)
(* transaction_id, user_id, country) is a sequence of one-character        *)
(* strings; text that the code only compares (currency, payment_method,    *)
(* device) is a string.  An amount is a whole number of cents.             *)
(***************************************************************************)
EXTENDS Integers, Sequences, FiniteSets, TLC

\* Largest number of records of a raw file that was not written by the generator.
MaxBatch == 2

\* Largest -n / --n-records given to the generator.
MaxGen == 2

(***************************************************************************)
(* Text helpers                                                            *)
(***************************************************************************)
DigitChars == <<"0", "1", "2", "3", "4", "5", "6", "7", "8", "9">>

Digits == {DigitChars[k] : k \in 1..10}

UpperChars == {"A", "B", "C", "D", "E", "F", "G", "H", "I", "J", "K", "L", "M",
               "N", "O", "P", "Q", "R", "S", "T", "U", "V", "W", "X", "Y", "Z"}

DigitVal(c) == (CHOOSE k \in 1..10 : DigitChars[k] = c) - 1

RECURSIVE Pow10(_)
Pow10(k) == IF k = 0 THEN 1 ELSE 10 * Pow10(k - 1)

\* f"{i:0{width}d}" for 0 <= i < 10^width
ZeroPad(i, width) == [k \in 1..width |-> DigitChars[((i \div Pow10(width - k)) % 10) + 1]]

\* int(text) of a run of decimal digits
RECURSIVE DecVal(_)
DecVal(s) == IF s = <<>> THEN 0 ELSE 10 * DecVal(SubSeq(s, 1, Len(s) - 1)) + DigitVal(s[Len(s)])

AllDigits(s) == \A k \in 1..Len(s) : s[k] \in Digits

Range(s) == {s[k] : k \in 1..Len(s)}

\* The elements of a set from the largest down: an order that a set's
\* iteration can give when nothing sorts it.
RECURSIVE unsorted(_)
unsorted(S) ==
    IF S = {} THEN <<>>
    ELSE LET m == CHOOSE x \in S : \A y \in S : x >= y
         IN  <<m>> \o unsorted(S \ {m})

\* sorted(set): the ascending sequence of a finite set of integers
RECURSIVE sorted(_)
sorted(S) ==
    IF S = {} THEN <<>>
    ELSE LET m == CHOOSE x \in S : \A y \in S : x <= y
         IN  <<m>> \o sorted(S \ {m})

(***************************************************************************)
(* datetime.date                                                           *)
(***************************************************************************)
IsLeap(y) == (y % 4 = 0 /\ y % 100 # 0) \/ y % 400 = 0

DaysInMonth(y, m) ==
    IF m = 2 THEN (IF IsLeap(y) THEN 29 ELSE 28)
    ELSE IF m \in {4, 6, 9, 11} THEN 30 ELSE 31

\* date.fromisoformat(text): ok = FALSE is ValueError.  The texts of
\* RunDateArgs parse alike under every Python 3 version; from 3.11 on the
\* function also takes other ISO 8601 shapes (YYYYMMDD), which are not among
\* them.
fromisoformat(text) ==
    LET shaped == /\ Len(text) = 10
                  /\ text[5] = "-" /\ text[8] = "-"
                  /\ AllDigits(SubSeq(text, 1, 4))
                  /\ AllDigits(SubSeq(text, 6, 7))
                  /\ AllDigits(SubSeq(text, 9, 10))
        y == DecVal(SubSeq(text, 1, 4))
        m == DecVal(SubSeq(text, 6, 7))
        d == DecVal(SubSeq(text, 9, 10))
    IN  IF shaped /\ y >= 1 /\ m \in 1..12 /\ d >= 1 /\ d <= DaysInMonth(y, m)
        THEN [ok |-> TRUE, y |-> y, m |-> m, d |-> d]
        ELSE [ok |-> FALSE, y |-> 0, m |-> 0, d |-> 0]

\* date.isoformat()
isoformat(dt) == ZeroPad(dt.y, 4) \o <<"-">> \o ZeroPad(dt.m, 2) \o <<"-">> \o ZeroPad(dt.d, 2)

\* date.today(): the day the stages run on
today == [ok |-> TRUE, y |-> 2025, m |-> 1, d |-> 1]

TodayStr == isoformat(today)

OtherStr == <<"2", "0", "2", "5", "-", "0", "1", "-", "0", "2">>

\* The run-dates whose files the three directories hold: the files of
\* today's date.  A run for another date finds no input file.
DateStrs == {TodayStr}

\* --run-date as argparse delivers it: absent (None), or a text.
NoArg == [given |-> FALSE, text |-> <<>>]

RunDateArgs ==
    {NoArg}
    \cup {[given |-> TRUE, text |-> t] :
            t \in {<<>>, TodayStr, OtherStr,
                   <<"2", "0", "2", "5", "-", "1", "3", "-", "0", "1">>}}

\* "if args.run_date:": None and the empty text are both falsy
Truthy(arg) == arg.given /\ arg.text # <<>>

(***************************************************************************)
(* generate_transactions.py                                                *)
(***************************************************************************)
N_USERS == 300

CURRENCIES == <<"USD", "EUR", "HUF">>

PAYMENT_METHODS == <<"credit_card", "debit_card", "paypal", "bank_transfer">>

DEVICES == <<"mobile", "desktop", "tablet">>

\* The columns of a generated file, and of the transform stage's schema.
cols == {"transaction_id", "user_id", "timestamp", "amount", "currency",
         "payment_method", "country", "device", "is_chargeback"}

\* random.seed(SEED) and fake.seed_instance(SEED) at import fix every run's
\* sequence of draws: the k-th draw from a list is a function of k, shown
\* here as a cycle through the list.
choice(k, list) == list[((k - 1) % Len(list)) + 1]

generate_transaction_id(i) == <<"t", "x", "n", "_">> \o ZeroPad(i, 6)

user_pool == [i \in 1..N_USERS |-> <<"u", "_">> \o ZeroPad(i, 4)]

choose_user_id(k) == choice(k, user_pool)

\* dt.isoformat(timespec='seconds'): 'YYYY-MM-DDTHH:MM:SS', a text cell
generate_timestamp(k) ==
    [kind |-> "str", date |-> "2024-06-15", sep |-> "T", time |-> "10:00:00"]

\* round(random.uniform(AMOUNT_MIN, AMOUNT_MAX), 2), in cents
generate_amount(k) == 1250 * (((k - 1) % 80) + 1)

\* The i-th record of a generated batch.
transaction(i) ==
    [transaction_id |-> generate_transaction_id(i),
     user_id        |-> choose_user_id(i),
     timestamp      |-> generate_timestamp(i),
     amount         |-> generate_amount(i),
     currency       |-> choice(i, CURRENCIES),
     payment_method |-> choice(i, PAYMENT_METHODS),
     country        |-> <<"H", "U">>,
     device         |-> choice(i, DEVICES),
     is_chargeback  |-> 0]

(***************************************************************************)
(* CSV files and data frames                                               *)
(*   file  : [exists, columns, rows], rows a sequence of column -> cell    *)
(*   frame : [columns, data], data a sequence of [index, cells]            *)
(***************************************************************************)
Absent == [exists |-> FALSE, columns |-> {}, rows |-> <<>>]

\* to_csv writes a datetime64 value as 'YYYY-MM-DD HH:MM:SS'; text and
\* numbers are written as they are.
CsvCell(c, v) ==
    IF c = "timestamp" /\ v.kind = "datetime64"
    THEN [kind |-> "str", date |-> v.date, sep |-> " ", time |-> v.time]
    ELSE v

\* df.to_csv(path, index=False)
to_csv(df) ==
    [exists  |-> TRUE,
     columns |-> df.columns,
     rows    |-> [k \in 1..Len(df.data) |->
                    [c \in df.columns |-> CsvCell(c, df.data[k].cells[c])]]]

\* pd.read_csv(path): a RangeIndex 0..n-1; a timestamp stays text
read_csv(file) ==
    [columns |-> file.columns,
     data    |-> [k \in 1..Len(file.rows) |-> [index |-> k - 1, cells |-> file.rows[k]]]]

\* pd.DataFrame(transactions, columns=cols) of the n generated records
GeneratedFrame(n) ==
    [columns |-> cols,
     data    |-> [k \in 1..n |-> [index |-> k - 1, cells |-> transaction(k)]]]

\* pd.DataFrame(columns = df_raw.columns)
EmptyFrame(columns) == [columns |-> columns, data |-> <<>>]

IndexOf(df) == {df.data[k].index : k \in 1..Len(df.data)}

\* the elements of s whose index is in keep, in the order of s
RECURSIVE SelectData(_, _)
SelectData(s, keep) ==
    IF s = <<>> THEN <<>>
    ELSE (IF Head(s).index \in keep THEN <<Head(s)>> ELSE <<>>) \o SelectData(Tail(s), keep)

RowAt(df, i) == CHOOSE r \in Range(df.data) : r.index = i

\* df.loc[labels]: the rows with these labels, in the order of labels
loc(df, labels) ==
    [columns |-> df.columns, data |-> [k \in 1..Len(labels) |-> RowAt(df, labels[k])]]

\* A drop that removes nothing: the frame as it is.
drop_nothing(df, labels) == df

\* df.drop(index=labels): the other rows, in the frame's order
drop(df, labels) ==
    [columns |-> df.columns, data |-> SelectData(df.data, IndexOf(df) \ Range(labels))]

(***************************************************************************)
(* transform_transactions.py: the schema, and schema.validate(lazy=True)   *)
(*                                                                         *)
(* validate returns the coerced frame when nothing fails, and otherwise    *)
(* raises SchemaErrors whose failure_cases has one row per failure:        *)
(*   - a failed check of a column on a row, with that row's index label;   *)
(*   - unique=True: every row whose value occurs more than once (the       *)
(*     library's default is to report all duplicates), with its label;     *)
(*   - strict=True: a column not in the schema, or a schema column not in  *)
(*     the frame, with index None.                                         *)
(* Every timestamp text of the model parses as a date-time, and every      *)
(* other cell already has its column's dtype, so no coercion fails.        *)
(***************************************************************************)
\* Check.str_matches(r"^<prefix>\d{n}$")
str_matches_digits(prefix, n, v) ==
    /\ Len(v) = Len(prefix) + n
    /\ SubSeq(v, 1, Len(prefix)) = prefix
    /\ AllDigits(SubSeq(v, Len(prefix) + 1, Len(v)))

\* Check.str_matches(r"^[A-Z]{n}$")
str_matches_upper(n, v) == Len(v) = n /\ \A k \in 1..Len(v) : v[k] \in UpperChars

\* Check.str_length(lo, hi)
str_length(lo, hi, v) == lo <= Len(v) /\ Len(v) <= hi

\* The payment methods the schema's isin check allows.
SchemaPaymentMethods == {"credit_card", "paypal", "debit_card", "bank_transfer", "crypto"}

\* schema: per column, the checks in declaration order, each a name and its
\* verdict on a value v of the column.
ColumnChecks(c, v) ==
    CASE c = "transaction_id" ->
           <<[check |-> "str_matches", passed |-> str_matches_digits(<<"t", "x", "n", "_">>, 6, v)]>>
      [] c = "user_id" ->
           <<[check |-> "str_matches", passed |-> str_matches_digits(<<"u", "_">>, 4, v)]>>
      [] c = "timestamp" -> <<>>
      [] c = "amount" -> <<[check |-> "greater_than", passed |-> v > 0]>>
      [] c = "currency" -> <<[check |-> "isin", passed |-> v \in {"USD", "EUR", "HUF"}]>>
      [] c = "payment_method" -> <<[check |-> "isin", passed |-> v \in SchemaPaymentMethods]>>
      [] c = "country" ->
           <<[check |-> "str_length", passed |-> str_length(2, 2, v)],
             [check |-> "str_matches", passed |-> str_matches_upper(2, v)]>>
      [] c = "device" -> <<[check |-> "isin", passed |-> v \in {"mobile", "desktop", "tablet"}]>>
      [] c = "is_chargeback" -> <<[check |-> "isin", passed |-> v \in {0, 1}]>>

\* Column(..., unique=True)
UniqueColumns == {"transaction_id"}

\* The "index" of a failure case that belongs to no row (None).
NoIndex == -1

\* Column(pa.DateTime, coerce=True): the text 'date T time' or 'date time'
\* becomes a datetime64 value; the other columns already hold their dtype.
coerce(c, v) ==
    IF c = "timestamp" /\ v.kind = "str" /\ v.sep \in {"T", " "}
    THEN [kind |-> "datetime64", date |-> v.date, sep |-> "", time |-> v.time]
    ELSE v

\* The frame schema.validate returns when nothing fails.
Coerced(df) ==
    [columns |-> df.columns,
     data    |-> [k \in 1..Len(df.data) |->
                    [index |-> df.data[k].index,
                     cells |-> [c \in df.columns |-> coerce(c, df.data[k].cells[c])]]]]

\* strict=True: a column of the frame that the schema does not name, and a
\* column of the schema that the frame lacks, each fail with no row index.
StrictFailures(df) ==
    {[column |-> c, check |-> "column_in_schema", index |-> NoIndex] : c \in df.columns \ cols}
    \cup {[column |-> c, check |-> "column_in_dataframe", index |-> NoIndex] : c \in cols \ df.columns}

\* The names of the checks of column c that the value v fails.
FailedChecks(c, v) == {r.check : r \in {r \in Range(ColumnChecks(c, v)) : ~r.passed}}

\* The checks of each column on each row: a failure carries the row's index.
CheckFailures(df) ==
    UNION {UNION {{[column |-> c, check |-> name, index |-> df.data[k].index] :
                     name \in FailedChecks(c, coerce(c, df.data[k].cells[c]))} :
                  k \in 1..Len(df.data)} :
           c \in cols \cap df.columns}

\* The rows of df whose value in column c occurs more than once.
duplicated(df, c) ==
    {k \in 1..Len(df.data) :
        \E k2 \in 1..Len(df.data) : k2 # k /\ df.data[k2].cells[c] = df.data[k].cells[c]}

\* unique=True reports every row whose value occurs more than once.
UniqueFailures(df) ==
    UNION {{[column |-> c, check |-> "field_uniqueness", index |-> df.data[k].index] :
              k \in duplicated(df, c)} :
           c \in UniqueColumns \cap df.columns}

\* e.failure_cases of schema.validate(df_raw, lazy=True); empty when it returns
failure_cases(df) == StrictFailures(df) \cup CheckFailures(df) \cup UniqueFailures(df)

\* sorted(set(failures["index"])); ok = FALSE when a failure case has no row
\* index: the None is not orderable against the row numbers, and is not a
\* label of df_raw.
bad_indices(failures) ==
    LET idx == {f.index : f \in failures}
    IN  IF NoIndex \in idx THEN [ok |-> FALSE, labels |-> <<>>]
        ELSE [ok |-> TRUE, labels |-> sorted(idx)]

\* f"{x:.2%}" of count/total, in hundredths of a percent, rounded to the
\* nearest
Ratio(count, total) == (2 * 10000 * count + total) \div (2 * total)

\* The lines of the summary, each with its count and its ratio (-1 where
\* the line prints none).
Summary(total_records, good_records, bad_records) ==
    <<[line |-> "Total records processed", n |-> total_records, ratio |-> -1]>>
    \o (IF total_records > 0
        THEN <<[line |-> "Valid records", n |-> good_records,
                ratio |-> Ratio(good_records, total_records)],
               [line |-> "Invalid records", n |-> bad_records,
                ratio |-> Ratio(bad_records, total_records)]>>
        ELSE <<>>)
    \o <<IF bad_records > 0
         THEN [line |-> "Invalid records moved to quarantine", n |-> -1, ratio |-> -1]
         ELSE [line |-> "No invalid records. Quarantine file not written.", n |-> -1, ratio |-> -1]>>
    \o <<[line |-> "Transformed data saved to", n |-> -1, ratio |-> -1]>>

(***************************************************************************)
(* Raw files that some other producer than the generator left in data/raw  *)
(***************************************************************************)
\* A second record with the transaction_id of the generator's first record.
RowDup == [transaction(1) EXCEPT !.user_id = choose_user_id(2), !.amount = 990]

\* amount = -5.00
RowNeg == [transaction(3) EXCEPT !.amount = -500]

\* payment_method = "crypto"
RowCrypto == [transaction(4) EXCEPT !.payment_method = "crypto"]

\* country = "USA"
RowUSA == [transaction(5) EXCEPT !.country = <<"U", "S", "A">>]

Pool == {transaction(1), transaction(2), RowDup, RowNeg, RowCrypto, RowUSA}

BoundedSeq(S, n) == UNION {[1..k -> S] : k \in 0..n}

\* The file of these rows under the schema's header, under a header with one
\* more column, and under a header without the device column.
WithColumns(rows, variant) ==
    CASE variant = "exact" ->
           [exists |-> TRUE, columns |-> cols, rows |-> rows]
      [] variant = "extra" ->
           [exists |-> TRUE, columns |-> cols \cup {"note"},
            rows |-> [k \in 1..Len(rows) |->
                        [c \in cols \cup {"note"} |-> IF c = "note" THEN "x" ELSE rows[k][c]]]]
      [] variant = "missing" ->
           [exists |-> TRUE, columns |-> cols \ {"device"},
            rows |-> [k \in 1..Len(rows) |-> [c \in cols \ {"device"} |-> rows[k][c]]]]

ExternalFiles ==
    {WithColumns(rows, variant) :
        rows \in BoundedSeq(Pool, MaxBatch), variant \in {"exact", "extra", "missing"}}

(***************************************************************************)
(* State                                                                   *)
(***************************************************************************)
VARIABLES
    raw,          \* data/raw/transactions_<date>.csv, by date
    curated,      \* data/curated/transactions_curated_<date>.csv, by date
    quarantine,   \* data/quarantine/transactions_quarantine_<date>.csv, by date
    run           \* the latest run of the transform stage: its argument, its
                  \* locals when it ended, what it printed and how it exited

vars == <<raw, curated, quarantine, run>>

NoFrame == EmptyFrame({})

NoRun ==
    [arg |-> NoArg, exit |-> "none", today_str |-> <<>>, df_raw |-> NoFrame,
     df_good |-> NoFrame, df_bad |-> NoFrame, stdout |-> <<>>, stderr |-> ""]

Init ==
    /\ \E f \in ExternalFiles \cup {Absent} :
          raw = [d \in DateStrs |-> IF d = TodayStr THEN f ELSE Absent]
    /\ curated = [d \in DateStrs |-> Absent]
    /\ quarantine = [d \in DateStrs |-> Absent]
    /\ run = NoRun

\* The file at a path of a directory.
FileAt(dir, today_str) == IF today_str \in DOMAIN dir THEN dir[today_str] ELSE Absent

\* "date handling" of both stages: the date of the run, ok = FALSE on ValueError
RunDate(arg) == IF Truthy(arg) THEN fromisoformat(arg.text) ELSE today

(***************************************************************************)
(* generate_transactions.py: main                                          *)
(***************************************************************************)
\* A run that ends in SystemExit (n_records <= 0, or a run-date that is no
\* date) writes nothing: the action is the run that reaches to_csv.
GenerateMain(arg, n) ==
    /\ n > 0
    /\ RunDate(arg).ok
    /\ isoformat(RunDate(arg)) \in DOMAIN raw
    /\ raw' = [raw EXCEPT ![isoformat(RunDate(arg))] = to_csv(GeneratedFrame(n))]
    /\ UNCHANGED <<curated, quarantine, run>>

(***************************************************************************)
(* transform_transactions.py: main                                         *)
(***************************************************************************)
\* "validate and separate good vs bad data": the locals after the try block;
\* exit = "Traceback" when the except block itself raises.
Separate(df_raw) ==
    LET failures == failure_cases(df_raw)
        labels   == bad_indices(failures)
    IN  IF failures = {}
        THEN [exit |-> "ok", df_good |-> Coerced(df_raw),
              df_bad |-> EmptyFrame(df_raw.columns), stdout |-> <<>>]
        ELSE IF ~labels.ok
        THEN [exit |-> "Traceback", df_good |-> NoFrame, df_bad |-> NoFrame,
              stdout |-> <<[line |-> "Data validation errors found. Moving invalid data to quarantine.",
                            n |-> -1, ratio |-> -1]>>]
        ELSE [exit |-> "ok", df_good |-> drop(df_raw, labels.labels),
              df_bad |-> loc(df_raw, labels.labels),
              stdout |-> <<[line |-> "Data validation errors found. Moving invalid data to quarantine.",
                            n |-> -1, ratio |-> -1]>>]

\* df_bad.empty
empty(df) == df.data = <<>> \/ df.columns = {}

TransformMain(arg) ==
    /\ IF ~RunDate(arg).ok
       THEN /\ run' = [NoRun EXCEPT !.arg = arg, !.exit = "SystemExit",
                          !.stderr = "Error: run_date must be in 'YYYY-MM-DD' format."]
            /\ UNCHANGED <<curated, quarantine>>
       ELSE LET today_str == isoformat(RunDate(arg))
                input     == FileAt(raw, today_str)
                df_raw    == read_csv(input)
                sep       == Separate(df_raw)
            IN  IF ~input.exists
                THEN /\ run' = [NoRun EXCEPT !.arg = arg, !.exit = "SystemExit",
                                   !.today_str = today_str,
                                   !.stderr = "Error: Input file not found."]
                     /\ UNCHANGED <<curated, quarantine>>
                ELSE IF sep.exit # "ok"
                THEN /\ run' = [NoRun EXCEPT !.arg = arg, !.exit = sep.exit,
                                   !.today_str = today_str, !.df_raw = df_raw,
                                   !.stdout = sep.stdout, !.stderr = "Traceback"]
                     /\ UNCHANGED <<curated, quarantine>>
                ELSE /\ curated' = [curated EXCEPT ![today_str] = to_csv(sep.df_good)]
                     /\ quarantine' = IF ~empty(sep.df_bad)
                                      THEN [quarantine EXCEPT ![today_str] = to_csv(sep.df_bad)]
                                      ELSE quarantine
                     /\ run' = [arg |-> arg, exit |-> "ok", today_str |-> today_str,
                                df_raw |-> df_raw, df_good |-> sep.df_good,
                                df_bad |-> sep.df_bad,
                                stdout |-> sep.stdout
                                           \o Summary(Len(df_raw.data), Len(sep.df_good.data),
                                                      Len(sep.df_bad.data)),
                                stderr |-> ""]
    /\ UNCHANGED raw

Next ==
    \/ \E arg \in RunDateArgs, n \in 0..MaxGen : GenerateMain(arg, n)
    \/ \E arg \in RunDateArgs : TransformMain(arg)

Spec == Init /\ [][Next]_vars

(***************************************************************************)
(* Properties                                                              *)
(***************************************************************************)
\* The latest run read its batch and ran to the end of main.
Completed == run.exit = "ok"

\* The latest run read its batch (it got as far as validation).
ReadBatch == run.exit \in {"ok", "Traceback"}

\* The violations of the row with index i of a batch: the failed checks and
\* the duplicate key of that row, and the strict-policy failures of the batch.
Violations(df, i) == {f \in failure_cases(df) : f.index = i} \cup StrictFailures(df)

\* The indexes of a frame's rows, in the frame's order.
IndexSeq(df) == [k \in 1..Len(df.data) |-> df.data[k].index]

Increasing(s) == \A a, b \in 1..Len(s) : a < b => s[a] < s[b]

\* The row that to_csv writes for the row with index i of a frame.
WrittenRow(df, i) == to_csv(df).rows[CHOOSE k \in 1..Len(df.data) : df.data[k].index = i]

\* C1: after a run that read its batch and finished, every row of the batch
\* is in exactly one of df_good (curated) and df_bad (quarantine): the two
\* hold exactly the batch's rows, none twice, and the counts add up.
C1_PartitionComplete ==
    Completed =>
        /\ IndexOf(run.df_good) \cup IndexOf(run.df_bad) = IndexOf(run.df_raw)
        /\ IndexOf(run.df_good) \cap IndexOf(run.df_bad) = {}
        /\ Cardinality(IndexOf(run.df_good)) = Len(run.df_good.data)
        /\ Cardinality(IndexOf(run.df_bad)) = Len(run.df_bad.data)
        /\ Len(run.df_good.data) + Len(run.df_bad.data) = Len(run.df_raw.data)
        /\ \A i \in IndexOf(run.df_bad) : RowAt(run.df_bad, i) = RowAt(run.df_raw, i)
        /\ Len(curated[run.today_str].rows) = Len(run.df_good.data)

\* C1 witness: a finished run with rows on both sides.
C1_Witness ==
    Completed /\ Len(run.df_good.data) >= 1 /\ Len(run.df_bad.data) >= 1

\* C2: for every batch that a run read and every record of it, the record is
\* in curated iff it has no violation, and otherwise it is in quarantine.
C2_Classification ==
    ReadBatch =>
        \A i \in IndexOf(run.df_raw) :
            /\ i \in IndexOf(run.df_good) <=> Violations(run.df_raw, i) = {}
            /\ Violations(run.df_raw, i) # {} => i \in IndexOf(run.df_bad)

\* C3: every record whose transaction_id occurs more than once in the batch
\* that a run read is in quarantine, the first occurrence included.
C3_UniquenessPropagation ==
    ReadBatch =>
        \A k \in duplicated(run.df_raw, "transaction_id") :
            run.df_raw.data[k].index \in IndexOf(run.df_bad)

\* C4: a run that read its batch completes normally and writes its outputs,
\* whatever validation failures the batch holds; when every record is
\* invalid the curated output is empty.
C4_NeverAborts ==
    ReadBatch =>
        /\ run.exit = "ok"
        /\ curated[run.today_str] = to_csv(run.df_good)
        /\ (\A i \in IndexOf(run.df_raw) : Violations(run.df_raw, i) # {})
              => run.df_good.data = <<>>

\* C5: the rows of curated, and the rows of quarantine, are in the order
\* they had in the batch.
C5_OrderPreserved ==
    Completed =>
        /\ Increasing(IndexSeq(run.df_raw))
        /\ Increasing(IndexSeq(run.df_good))
        /\ Increasing(IndexSeq(run.df_bad))
        /\ \A k \in 1..Len(run.df_bad.data) :
              quarantine[run.today_str].rows[k] = WrittenRow(run.df_raw, IndexSeq(run.df_bad)[k])
        /\ Len(curated[run.today_str].rows) = Len(run.df_good.data)

\* C5 witness: a finished run that put two rows into quarantine.
C5_Witness == Completed /\ Len(run.df_bad.data) >= 2

\* C6: after a run for run-date D completed, the curated file of D holds
\* that run's curated subset, and the quarantine file of D exists iff that
\* run's quarantine subset is not empty.
C6_OutputFilePolicy ==
    Completed =>
        /\ curated[run.today_str] = to_csv(run.df_good)
        /\ quarantine[run.today_str].exists <=> run.df_bad.data # <<>>

\* C7: a record whose payment_method is "crypto" is classified invalid and
\* lands in quarantine.
C7_CryptoQuarantined ==
    Completed =>
        \A k \in 1..Len(run.df_raw.data) :
            run.df_raw.data[k].cells["payment_method"] = "crypto"
                => run.df_raw.data[k].index \in IndexOf(run.df_bad)

\* C8: a run on a batch of zero records that completes leaves both outputs
\* empty and reports total 0, valid 0 and invalid 0, the valid and the
\* invalid ratio field being present.
C8_EmptyBatchReport ==
    (Completed /\ run.df_raw.data = <<>>) =>
        /\ run.df_good.data = <<>> /\ run.df_bad.data = <<>>
        /\ curated[run.today_str].rows = <<>>
        /\ \E k \in 1..Len(run.stdout) :
              run.stdout[k].line = "Total records processed" /\ run.stdout[k].n = 0
        /\ \E k \in 1..Len(run.stdout) :
              run.stdout[k].line = "Valid records" /\ run.stdout[k].n = 0
        /\ \E k \in 1..Len(run.stdout) :
              run.stdout[k].line = "Invalid records" /\ run.stdout[k].n = 0

\* A run-date was given and is no date in YYYY-MM-DD format.
BadFormat(arg) == arg.given /\ ~fromisoformat(arg.text).ok

\* C9: a run started with a run-date that is not in YYYY-MM-DD format, or
\* whose raw input file is missing, ends in SystemExit and leaves every
\* curated and quarantine file as it was.
C9_AbortBeforeOutput ==
    [][(run' # run /\ (BadFormat(run'.arg) \/ ~FileAt(raw, run'.today_str).exists))
          => (run'.exit = "SystemExit" /\ UNCHANGED <<curated, quarantine>>)]_vars

\* C10: in two successive completed runs whose batches both hold the same
\* record, valid in both, the row written to curated for it is the same.
C10_CuratedIndependent ==
    [][(run.exit = "ok" /\ run'.exit = "ok") =>
          \A i \in IndexOf(run.df_good), j \in IndexOf(run'.df_good) :
              RowAt(run.df_raw, i).cells = RowAt(run'.df_raw, j).cells
                  => WrittenRow(run.df_good, i) = WrittenRow(run'.df_good, j)]_vars

====
